---- MODULE Spec2Model ----
(***************************************************************************)
(* Verification model of the React front end of the internal-linking tool: *)
(*   - AnalysisPage   (pages/AnalysisPage.js): the three-step workflow,     *)
(*   - ProgressTracker (components/RulesMatrix.js 258-580): the job status  *)
(*     view fed by a WebSocket and an HTTP fallback,                        *)
(*   - RulesMatrix    (components/RulesMatrix.js 1-256): the min/max rule   *)
(*     editor.                                                              *)
(* The three components are checked under the specifications Spec,        *)
(* SpecTracker and SpecRules; SpecUploads, SpecConfig, SpecFrames and       *)
(* SpecEdits are parts of them with wider inputs. Each leaves the other     *)
(* components' state untouched.                                             *)
(***************************************************************************)
EXTENDS Integers, Sequences, FiniteSets, TLC

VARIABLES
    \* ---- AnalysisPage (useState, AnalysisPage.js 15-23)
    activeStep, contentFile, linksFile, gscFile, minSimilarity,
    anchorSuggestions, analyzing, error, jobId,
    \* requests of AnalysisPage that have not returned yet
    analyzeReqs, uploads,
    \* history of the page: number of resets, submissions issued, the run in
    \* which the current job id was requested, the file last dropped on each
    \* FileUpload
    run, submitCount, jobRun, lastSelected,
    \* ---- ProgressTracker (useState, RulesMatrix.js 277-280, useWebSocket 287)
    mounted, jobStatus, trackerLoading, trackerError, logHistory,
    lastJsonMessage, readyState, reconnectCount,
    \* requests of the tracker that have not returned yet, and the server's job
    polls, forceReqs, serverStatus,
    \* history of the tracker
    everOpened, forceApplied, lastForced, forcedAgain, framesSent, repeats,
    \* ---- RulesMatrix (useState, RulesMatrix.js 24-29)
    rules, rulesLoading, saving, rulesError, success,
    \* the Rule Store behind GET/POST /rules and the requests under way
    store, saveReqs, loadReqs,
    \* history of the editor
    editCount

wfVars == <<activeStep, contentFile, linksFile, gscFile, minSimilarity,
            anchorSuggestions, analyzing, error, jobId, analyzeReqs, uploads,
            run, submitCount, jobRun, lastSelected>>
trackerVars == <<mounted, jobStatus, trackerLoading, trackerError, logHistory,
                 lastJsonMessage, readyState, reconnectCount, polls, forceReqs,
                 serverStatus, everOpened, forceApplied, lastForced,
                 forcedAgain, framesSent, repeats>>
rulesVars == <<rules, rulesLoading, saving, rulesError, success, store,
               saveReqs, loadReqs, editCount>>
vars == <<wfVars, trackerVars, rulesVars>>

\* A value that may be null is a sequence: <<>> is JavaScript's null (or an
\* absent field), <<x>> is the value x.
Null == <<>>
Some(x) == <<x>>

(***************************************************************************)
(* parseInt(value, 10) on the text of an <input>: the text is a sequence   *)
(* of one-character strings.                                                *)
(***************************************************************************)
Digits == {"0", "1", "2", "3", "4", "5", "6", "7", "8", "9"}

DigitValue(c) ==
    CASE c = "0" -> 0 [] c = "1" -> 1 [] c = "2" -> 2 [] c = "3" -> 3
      [] c = "4" -> 4 [] c = "5" -> 5 [] c = "6" -> 6 [] c = "7" -> 7
      [] c = "8" -> 8 [] c = "9" -> 9

RECURSIVE SkipSpaces(_)
SkipSpaces(s) ==
    IF s /= <<>> /\ Head(s) = " " THEN SkipSpaces(Tail(s)) ELSE s

RECURSIVE DigitPrefix(_)
DigitPrefix(s) ==
    IF s /= <<>> /\ Head(s) \in Digits
    THEN <<Head(s)>> \o DigitPrefix(Tail(s))
    ELSE <<>>

RECURSIVE DecimalValue(_, _)
DecimalValue(ds, acc) ==
    IF ds = <<>> THEN acc
    ELSE DecimalValue(Tail(ds), 10 * acc + DigitValue(Head(ds)))

\* Leading blanks are skipped, one sign is read, then the longest run of
\* digits; anything after it is ignored; no digit at all gives NaN. The result
\* is [nan, val]: NaN is nan = TRUE.
ParseInt(s) ==
    LET t == SkipSpaces(s)
        signed == t /= <<>> /\ Head(t) \in {"-", "+"}
        neg == t /= <<>> /\ Head(t) = "-"
        ds == DigitPrefix(IF signed THEN Tail(t) ELSE t)
    IN  IF ds = <<>> THEN [nan |-> TRUE, val |-> 0]
        ELSE [nan |-> FALSE,
              val |-> IF neg THEN 0 - DecimalValue(ds, 0) ELSE DecimalValue(ds, 0)]

IsNaN(n) == n.nan

(***************************************************************************)
(* AnalysisPage: the workflow.                                              *)
(***************************************************************************)
\* Bounds of the workflow model.
MaxSubmits == 2
MaxResets == 1
MaxUploads == 2

Files == {"pages.xlsx"}
\* Two files dropped one after the other on the same FileUpload.
UploadFiles == {"pages.xlsx", "pages-v2.xlsx"}
Slots == {"content", "links", "gsc"}
\* The descriptor the Upload Service returns for a file.
FileDescriptor(f) == [path |-> f, filename |-> f]

\* Slider positions offered to the user, in hundredths (0.2 is 20).
SliderValues == {85}
\* The slider's range (min 0, max 1) with its two ends.
SliderRange == {0, 50, 100}
\* Texts typed into the "suggestions d'ancres" field.
AnchorInputs == {<<"a">>, <<"4", "2">>}
\* The same field with an empty text, no number, zero, a negative number, a
\* number of the range and one beyond it.
AnchorTexts == {<<>>, <<"a">>, <<"0">>, <<"-", "5">>, <<"7">>, <<"4", "2">>}

InitialMinSimilarity == 20
InitialAnchorSuggestions == 3

ErrNoContent == "Veuillez telecharger un fichier de contenu"
ErrAnalyze == "Erreur lors du demarrage de l'analyse"

Max(a, b) == IF a >= b THEN a ELSE b
Min(a, b) == IF a <= b THEN a ELSE b

\* parseInt(e.target.value) || 1, without the two bounds.
UnclampedAnchorSuggestions(text) ==
    LET n == ParseInt(text)
    IN  IF IsNaN(n) \/ n.val = 0 THEN 1 ELSE n.val

\* Math.max(1, Math.min(10, parseInt(e.target.value) || 1))
ClampAnchorSuggestions(text) ==
    LET n == ParseInt(text)
        v == IF IsNaN(n) \/ n.val = 0 THEN 1 ELSE n.val
    IN  Max(1, Min(10, v))

\* The button never disabled.
NextNeverDisabled == FALSE

\* disabled={activeStep === 0 && !contentFile} on the Suivant / Lancer button
NextDisabled == activeStep = 0 /\ contentFile = Null
\* disabled={activeStep === 0} on the Retour button
BackDisabled == activeStep = 0
\* The right-hand button is "Nouvelle analyse" on the last step only.
ResetShown == activeStep = 2
\* case 2 of getStepContent: analyzing ? <CircularProgress/> : <ProgressTracker/>
TrackerShown == activeStep = 2 /\ ~analyzing
SpinnerShown == activeStep = 2 /\ analyzing

\* The descriptor AnalysisPage holds for a FileUpload's slot.
SlotFile(slot) ==
    CASE slot = "content" -> contentFile
      [] slot = "links" -> linksFile
      [] slot = "gsc" -> gscFile

\* The multipart body of POST /analyze.
Payload ==
    [content_file |-> contentFile[1].path,
     links_file |-> IF linksFile /= Null THEN Some(linksFile[1].path) ELSE Null,
     gsc_file |-> IF gscFile /= Null THEN Some(gscFile[1].path) ELSE Null,
     min_similarity |-> minSimilarity,
     anchor_suggestions |-> anchorSuggestions]

wfHistory == <<run, submitCount, jobRun, lastSelected>>

WfInit ==
    /\ activeStep = 0
    /\ contentFile = Null /\ linksFile = Null /\ gscFile = Null
    /\ minSimilarity = InitialMinSimilarity
    /\ anchorSuggestions = InitialAnchorSuggestions
    /\ analyzing = FALSE
    /\ error = Null
    /\ jobId = Null
    /\ analyzeReqs = {} /\ uploads = {}
    /\ run = 0 /\ submitCount = 0 /\ jobRun = 0
    /\ lastSelected = [slot \in Slots |-> Null]

\* FileUpload.onDrop of one of the three slots, up to the request being sent.
\* The three FileUpload components are rendered on step 0 only.
UploadStart(slot, f) ==
    /\ activeStep = 0
    /\ Cardinality(uploads) < MaxUploads
    /\ uploads' = uploads \cup {[slot |-> slot, file |-> f]}
    /\ lastSelected' = [lastSelected EXCEPT ![slot] = Some(f)]
    /\ UNCHANGED <<activeStep, contentFile, linksFile, gscFile, minSimilarity,
                   anchorSuggestions, analyzing, error, jobId, analyzeReqs,
                   run, submitCount, jobRun>>
    /\ UNCHANGED <<trackerVars, rulesVars>>

\* The upload returns: onFileUploaded(response.data), i.e. the slot's setter
\* of AnalysisPage, whatever step the page is on by then.
UploadSuccess(u) ==
    /\ u \in uploads
    /\ uploads' = uploads \ {u}
    /\ contentFile' = IF u.slot = "content" THEN Some(FileDescriptor(u.file))
                      ELSE contentFile
    /\ linksFile' = IF u.slot = "links" THEN Some(FileDescriptor(u.file))
                    ELSE linksFile
    /\ gscFile' = IF u.slot = "gsc" THEN Some(FileDescriptor(u.file))
                  ELSE gscFile
    /\ UNCHANGED <<activeStep, minSimilarity, anchorSuggestions, analyzing,
                   error, jobId, analyzeReqs, wfHistory>>
    /\ UNCHANGED <<trackerVars, rulesVars>>

\* The upload fails: only FileUpload's own error is set.
UploadFailure(u) ==
    /\ u \in uploads
    /\ uploads' = uploads \ {u}
    /\ UNCHANGED <<activeStep, contentFile, linksFile, gscFile, minSimilarity,
                   anchorSuggestions, analyzing, error, jobId, analyzeReqs,
                   wfHistory>>
    /\ UNCHANGED <<trackerVars, rulesVars>>

\* A click on "Suivant" (step 0); a disabled button delivers no click.
handleNext ==
    /\ activeStep = 0
    /\ ~NextDisabled
    /\ activeStep' = activeStep + 1
    /\ UNCHANGED <<contentFile, linksFile, gscFile, minSimilarity,
                   anchorSuggestions, analyzing, error, jobId, analyzeReqs,
                   uploads, wfHistory>>
    /\ UNCHANGED <<trackerVars, rulesVars>>

\* A click on "Retour".
handleBack ==
    /\ ~BackDisabled
    /\ activeStep' = activeStep - 1
    /\ UNCHANGED <<contentFile, linksFile, gscFile, minSimilarity,
                   anchorSuggestions, analyzing, error, jobId, analyzeReqs,
                   uploads, wfHistory>>
    /\ UNCHANGED <<trackerVars, rulesVars>>

\* The slider and the text field of step 1.
SetMinSimilarity(v) ==
    /\ activeStep = 1
    /\ minSimilarity' = v
    /\ UNCHANGED <<activeStep, contentFile, linksFile, gscFile,
                   anchorSuggestions, analyzing, error, jobId, analyzeReqs,
                   uploads, wfHistory>>
    /\ UNCHANGED <<trackerVars, rulesVars>>

SetAnchorSuggestions(text) ==
    /\ activeStep = 1
    /\ anchorSuggestions' = ClampAnchorSuggestions(text)
    /\ UNCHANGED <<activeStep, contentFile, linksFile, gscFile, minSimilarity,
                   analyzing, error, jobId, analyzeReqs, uploads, wfHistory>>
    /\ UNCHANGED <<trackerVars, rulesVars>>

\* A click on "Lancer l'analyse" (step 1): startAnalysis up to its await.
startAnalysis ==
    /\ activeStep = 1
    /\ IF contentFile = Null
       THEN /\ error' = Some(ErrNoContent)
            /\ UNCHANGED <<analyzing, analyzeReqs, submitCount>>
       ELSE /\ submitCount < MaxSubmits
            /\ error' = Null
            /\ analyzing' = TRUE
            /\ submitCount' = submitCount + 1
            /\ analyzeReqs' = analyzeReqs \cup
                   {[id |-> submitCount + 1, run |-> run, body |-> Payload]}
    /\ UNCHANGED <<activeStep, contentFile, linksFile, gscFile, minSimilarity,
                   anchorSuggestions, jobId, uploads, run, jobRun, lastSelected>>
    /\ UNCHANGED <<trackerVars, rulesVars>>

\* POST /analyze returns a job id (one per request): the rest of the try block.
AnalyzeSuccess(r) ==
    /\ r \in analyzeReqs
    /\ analyzeReqs' = analyzeReqs \ {r}
    /\ jobId' = Some(r.id)
    /\ jobRun' = r.run
    /\ activeStep' = 2
    /\ UNCHANGED <<contentFile, linksFile, gscFile, minSimilarity,
                   anchorSuggestions, analyzing, error, uploads, lastSelected, run,
                   submitCount>>
    /\ UNCHANGED <<trackerVars, rulesVars>>

\* POST /analyze fails: the catch block.
AnalyzeFailure(r) ==
    /\ r \in analyzeReqs
    /\ analyzeReqs' = analyzeReqs \ {r}
    /\ error' = Some(ErrAnalyze)
    /\ analyzing' = FALSE
    /\ UNCHANGED <<activeStep, contentFile, linksFile, gscFile, minSimilarity,
                   anchorSuggestions, jobId, uploads, wfHistory>>
    /\ UNCHANGED <<trackerVars, rulesVars>>

\* A click on "Nouvelle analyse".
handleReset ==
    /\ ResetShown
    /\ run < MaxResets
    /\ activeStep' = 0
    /\ contentFile' = Null
    /\ linksFile' = Null
    /\ gscFile' = Null
    /\ jobId' = Null
    /\ error' = Null
    /\ run' = run + 1
    /\ UNCHANGED <<minSimilarity, anchorSuggestions, analyzing, analyzeReqs,
                   uploads, submitCount, jobRun, lastSelected>>
    /\ UNCHANGED <<trackerVars, rulesVars>>

Next ==
    \/ \E slot \in Slots, f \in Files : UploadStart(slot, f)
    \/ \E u \in uploads : UploadSuccess(u)
    \/ \E u \in uploads : UploadFailure(u)
    \/ handleNext
    \/ handleBack
    \/ \E v \in SliderValues : SetMinSimilarity(v)
    \/ \E text \in AnchorInputs : SetAnchorSuggestions(text)
    \/ startAnalysis
    \/ \E r \in analyzeReqs : AnalyzeSuccess(r)
    \/ \E r \in analyzeReqs : AnalyzeFailure(r)
    \/ handleReset

\* Step 0 alone, with two files to drop.
NextUploads ==
    \/ \E slot \in Slots, f \in UploadFiles : UploadStart(slot, f)
    \/ \E u \in uploads : UploadSuccess(u)
    \/ \E u \in uploads : UploadFailure(u)

\* Step 1 alone, with the whole range of its two inputs.
NextConfig ==
    \/ \E f \in Files : UploadStart("content", f)
    \/ \E u \in uploads : UploadSuccess(u)
    \/ handleNext
    \/ handleBack
    \/ \E v \in SliderRange : SetMinSimilarity(v)
    \/ \E text \in AnchorTexts : SetAnchorSuggestions(text)
    \/ startAnalysis
    \/ \E r \in analyzeReqs : AnalyzeFailure(r)


(***************************************************************************)
(* ProgressTracker: the job status view.                                    *)
(***************************************************************************)
\* Bounds of the tracker model.
MaxFrames == 3
MaxPolls == 2
MaxForce == 1

\* useWebSocket options (RulesMatrix.js 300) and WebSocket.readyState values.
ReconnectAttempts == 10
CONNECTING == 0
OPEN == 1
CLOSED == 3

\* The jobId prop; AnalysisPage renders the tracker with a job id set.
JobIdProp == Some(1)

\* Status frames / poll responses the server can produce.
Frame(st, pr, msg, rf) ==
    [status |-> st, progress |-> pr, message |-> msg, result_file |-> rf]
FQueued == Frame("queued", 0, Null, Null)
FRunA == Frame("running", 40, Some("Analyse de la page 10/25"), Null)
FRunB == Frame("running", 80, Some("Analyse de la page 20/25"), Null)
FCompleted == Frame("completed", 100, Some("Analyse terminee"), Some("r1.xlsx"))
FFailed == Frame("failed", 40, Some("Erreur"), Null)
Frames == {FQueued, FRunA, FRunB, FCompleted, FFailed}
\* A job still marked running whose result file is written (result_file is
\* optional in every frame), and a frame that is no status of the job: its
\* status is none of queued, running, completed, failed.
FRunDone == Frame("running", 100, Some("Analyse de la page 20/25"), Some("r1.xlsx"))
FUnknown == Frame("paused", 40, Some("Analyse de la page 10/25"), Null)
StrayFrames == {FUnknown}

ErrWebSocket == "Erreur de connexion au serveur WebSocket"
ErrPoll == "Erreur lors de la recuperation du statut"
ForcedMessage == "Analyse terminee avec succes (force)"

Terminal(f) == f.status \in {"completed", "failed"}
\* The canonical status is completed or failed.
JobTerminal == jobStatus /= Null /\ Terminal(jobStatus[1])

\* fetchStatusHTTP up to its await: GET /job/{jobId} leaves; the response will
\* carry the job as the server holds it now.
IssuePoll(ps) == ps \cup {serverStatus}
\* The model follows at most MaxPolls different responses at a time: a socket
\* event that would ask for one more waits for a response to arrive.
PollRoom == Cardinality(IssuePoll(polls)) <= MaxPolls

\* The log rule without the comparison with the last entry.
AppendLogAlways(log, f) ==
    IF f.message /= Null THEN Append(log, f.message[1]) ELSE log

\* The frame effect's log rule: append the message when there is one and it
\* differs from the last entry.
AppendLog(log, f) ==
    IF f.message /= Null
       /\ (Len(log) = 0 \/ log[Len(log)] /= f.message[1])
    THEN Append(log, f.message[1])
    ELSE log

\* The update keeping the previous progress and message: { ...prev, status,
\* result_file }.
ForcedStatusKeepsProgress(prev, data) ==
    Some(Frame("completed", prev[1].progress, prev[1].message, data.result_file))

\* The update without the endpoint's result reference.
ForcedStatusKeepsResult(prev, data) ==
    Some(Frame("completed", 100, Some(ForcedMessage), prev[1].result_file))

\* handleStopAnalysis's update: { ...prev, status, progress, message, result_file }
ForcedStatus(prev, data) ==
    Some(Frame("completed", 100, Some(ForcedMessage), data.result_file))

\* What the component renders (RulesMatrix.js 442-575).
StatusViewShown ==
    mounted /\ ~trackerLoading /\ trackerError = Null /\ jobStatus /= Null
ResultActionsShown ==
    /\ StatusViewShown
    /\ \/ jobStatus[1].status = "completed"
       \/ jobStatus[1].result_file /= Null /\ jobStatus[1].progress = 100
ForceButtonShown == StatusViewShown /\ jobStatus[1].status = "running"
FailureNoticeShown == StatusViewShown /\ jobStatus[1].status = "failed"

\* repeats: some frame carried the same message as the frame before it;
\* lastForced: the status the last applied forced completion wrote;
\* forcedAgain: a forced completion was applied after an earlier one.
trackerHistory ==
    <<everOpened, forceApplied, lastForced, forcedAgain, framesSent, repeats>>

TrackerInit ==
    /\ mounted = TRUE
    /\ jobStatus = Null
    /\ trackerLoading = TRUE
    /\ trackerError = Null
    /\ logHistory = <<>>
    /\ lastJsonMessage = Null
    /\ readyState = CONNECTING
    /\ reconnectCount = 0
    /\ polls = {} /\ forceReqs = 0
    /\ serverStatus = FQueued
    /\ everOpened = FALSE /\ forceApplied = FALSE /\ framesSent = 0
    /\ repeats = FALSE
    /\ lastForced = Null
    /\ forcedAgain = FALSE

\* The socket opens: onOpen.
WsOpen ==
    /\ mounted /\ readyState = CONNECTING
    /\ readyState' = OPEN
    /\ reconnectCount' = 0
    /\ trackerLoading' = FALSE
    /\ everOpened' = TRUE
    /\ UNCHANGED <<mounted, jobStatus, trackerError, logHistory,
                   lastJsonMessage, polls, forceReqs, serverStatus,
                   forceApplied, lastForced, forcedAgain,
                   framesSent, repeats>>
    /\ UNCHANGED <<wfVars, rulesVars>>

\* The socket reports an error and closes: onError, then the readyState effect
\* with readyState = CLOSED; each calls fetchStatusHTTP, and both requests are
\* answered with the job as the server holds it at that moment.
WsError ==
    /\ mounted /\ readyState \in {CONNECTING, OPEN}
    /\ PollRoom
    /\ trackerError' = Some(ErrWebSocket)
    /\ trackerLoading' = FALSE
    /\ readyState' = CLOSED
    /\ polls' = IssuePoll(polls)
    /\ UNCHANGED <<mounted, jobStatus, logHistory, lastJsonMessage,
                   reconnectCount, forceReqs, serverStatus, trackerHistory>>
    /\ UNCHANGED <<wfVars, rulesVars>>

\* The socket closes without an error event: onClose, then the readyState
\* effect with readyState = CLOSED.
WsClose ==
    /\ mounted /\ readyState \in {CONNECTING, OPEN}
    /\ PollRoom
    /\ readyState' = CLOSED
    /\ polls' = IF JobIdProp /= Null THEN IssuePoll(polls) ELSE polls
    /\ UNCHANGED <<mounted, jobStatus, trackerLoading, trackerError,
                   logHistory, lastJsonMessage, reconnectCount, forceReqs,
                   serverStatus, trackerHistory>>
    /\ UNCHANGED <<wfVars, rulesVars>>

\* shouldReconnect: () => true, reconnectAttempts: 10: the hook opens a new
\* socket after a close, whatever the job's status, at most 10 times in a row.
WsReconnect ==
    /\ mounted /\ readyState = CLOSED
    /\ reconnectCount < ReconnectAttempts
    /\ reconnectCount' = reconnectCount + 1
    /\ readyState' = CONNECTING
    /\ UNCHANGED <<mounted, jobStatus, trackerLoading, trackerError,
                   logHistory, lastJsonMessage, polls, forceReqs,
                   serverStatus, trackerHistory>>
    /\ UNCHANGED <<wfVars, rulesVars>>

\* The job moves on (or the server repeats its status) and pushes the frame
\* f over the open socket: lastJsonMessage changes and the frame effect runs.
\* A terminal job does not change any more.
WsMessage(f) ==
    /\ mounted /\ readyState = OPEN
    /\ framesSent < MaxFrames
    /\ ~Terminal(serverStatus) \/ f = serverStatus
    /\ serverStatus' = f
    /\ framesSent' = framesSent + 1
    /\ lastJsonMessage' = Some(f)
    /\ jobStatus' = Some(f)
    /\ logHistory' = AppendLog(logHistory, f)
    /\ repeats' = (repeats \/ (lastJsonMessage /= Null /\ f.message /= Null
                                /\ lastJsonMessage[1].message = f.message))
    /\ UNCHANGED <<mounted, trackerLoading, trackerError, readyState,
                   reconnectCount, polls, forceReqs, everOpened, forceApplied,
                   lastForced, forcedAgain>>
    /\ UNCHANGED <<wfVars, rulesVars>>

\* The job moves on while no socket is open: nothing reaches the client.
ServerProgress(f) ==
    /\ readyState /= OPEN \/ ~mounted
    /\ framesSent < MaxFrames
    /\ ~Terminal(serverStatus)
    /\ f /= serverStatus
    /\ serverStatus' = f
    /\ framesSent' = framesSent + 1
    /\ UNCHANGED <<mounted, jobStatus, trackerLoading, trackerError,
                   logHistory, lastJsonMessage, readyState, reconnectCount,
                   polls, forceReqs, everOpened, forceApplied, lastForced,
                   forcedAgain, repeats>>
    /\ UNCHANGED <<wfVars, rulesVars>>

\* Any JSON frame other than the job's status arrives on the open socket:
\* lastJsonMessage changes and the same frame effect runs.
WsStrayFrame(f) ==
    /\ mounted /\ readyState = OPEN
    /\ framesSent < MaxFrames
    /\ framesSent' = framesSent + 1
    /\ lastJsonMessage' = Some(f)
    /\ jobStatus' = Some(f)
    /\ logHistory' = AppendLog(logHistory, f)
    /\ repeats' = (repeats \/ (lastJsonMessage /= Null /\ f.message /= Null
                                /\ lastJsonMessage[1].message = f.message))
    /\ UNCHANGED <<mounted, trackerLoading, trackerError, readyState,
                   reconnectCount, polls, forceReqs, serverStatus, everOpened,
                   forceApplied, lastForced, forcedAgain>>
    /\ UNCHANGED <<wfVars, rulesVars>>

\* The heartbeat's interval runs while the component is mounted and sends a
\* ping when readyState === 1, whatever the job's status.
HeartbeatDue == mounted /\ readyState = OPEN

\* The heartbeat effect's timer fires: a ping leaves when the socket is open.
Heartbeat ==
    /\ HeartbeatDue
    /\ UNCHANGED <<mounted, jobStatus, trackerLoading, trackerError,
                   logHistory, lastJsonMessage, readyState, reconnectCount,
                   polls, forceReqs, serverStatus, trackerHistory>>
    /\ UNCHANGED <<wfVars, rulesVars>>

\* GET /job/{jobId} returns data: the rest of fetchStatusHTTP's try block.
\* An unmounted component's setState calls do nothing.
PollSuccess(data) ==
    /\ data \in polls
    /\ polls' = polls \ {data}
    /\ IF mounted
       THEN /\ jobStatus' = Some(data)
            /\ trackerLoading' = FALSE
       ELSE UNCHANGED <<jobStatus, trackerLoading>>
    /\ UNCHANGED <<mounted, trackerError, logHistory, lastJsonMessage,
                   readyState, reconnectCount, forceReqs, serverStatus,
                   trackerHistory>>
    /\ UNCHANGED <<wfVars, rulesVars>>

\* A catch block that also drops the status held.
PollFailureClearsStatus(data) ==
    /\ data \in polls
    /\ polls' = polls \ {data}
    /\ IF mounted
       THEN /\ trackerError' = Some(ErrPoll)
            /\ trackerLoading' = FALSE
            /\ jobStatus' = Null
       ELSE UNCHANGED <<trackerError, trackerLoading, jobStatus>>
    /\ UNCHANGED <<mounted, logHistory, lastJsonMessage,
                   readyState, reconnectCount, forceReqs, serverStatus,
                   trackerHistory>>
    /\ UNCHANGED <<wfVars, rulesVars>>

\* GET /job/{jobId} fails: fetchStatusHTTP's catch block.
PollFailure(data) ==
    /\ data \in polls
    /\ polls' = polls \ {data}
    /\ IF mounted
       THEN /\ trackerError' = Some(ErrPoll)
            /\ trackerLoading' = FALSE
       ELSE UNCHANGED <<trackerError, trackerLoading>>
    /\ UNCHANGED <<mounted, jobStatus, logHistory, lastJsonMessage,
                   readyState, reconnectCount, forceReqs, serverStatus,
                   trackerHistory>>
    /\ UNCHANGED <<wfVars, rulesVars>>

\* A click on "Forcer la fin de l'analyse": handleStopAnalysis up to its await.
ForceStart ==
    /\ ForceButtonShown
    /\ forceReqs < MaxForce
    /\ forceReqs' = forceReqs + 1
    /\ UNCHANGED <<mounted, jobStatus, trackerLoading, trackerError,
                   logHistory, lastJsonMessage, readyState, reconnectCount,
                   polls, serverStatus, trackerHistory>>
    /\ UNCHANGED <<wfVars, rulesVars>>

\* GET /force-complete/{jobId} returns: the server marks a job that is not
\* terminal completed and answers with the job; the client overwrites its
\* status when the answer says completed.
ForceSuccess ==
    /\ forceReqs > 0
    /\ forceReqs' = forceReqs - 1
    /\ serverStatus' = IF Terminal(serverStatus) THEN serverStatus
                       ELSE FCompleted
    /\ IF mounted /\ serverStatus'.status = "completed"
       THEN /\ jobStatus' = ForcedStatus(jobStatus, serverStatus')
            /\ forceApplied' = TRUE
            /\ lastForced' = jobStatus'
            /\ forcedAgain' = (forcedAgain \/ lastForced /= Null)
       ELSE UNCHANGED <<jobStatus, forceApplied, lastForced, forcedAgain>>
    /\ UNCHANGED <<mounted, trackerLoading, trackerError, logHistory,
                   lastJsonMessage, readyState, reconnectCount, polls,
                   everOpened, framesSent, repeats>>
    /\ UNCHANGED <<wfVars, rulesVars>>

\* GET /force-complete/{jobId} fails: the catch block alerts the user.
ForceFailure ==
    /\ forceReqs > 0
    /\ forceReqs' = forceReqs - 1
    /\ UNCHANGED <<mounted, jobStatus, trackerLoading, trackerError,
                   logHistory, lastJsonMessage, readyState, reconnectCount,
                   polls, serverStatus, trackerHistory>>
    /\ UNCHANGED <<wfVars, rulesVars>>

\* AnalysisPage leaves step 2 (reset or back): the tracker is unmounted, the
\* hook closes its socket and the heartbeat effect clears its interval.
TrackerUnmount ==
    /\ mounted
    /\ mounted' = FALSE
    /\ readyState' = CLOSED
    /\ UNCHANGED <<jobStatus, trackerLoading, trackerError, logHistory,
                   lastJsonMessage, reconnectCount, polls, forceReqs,
                   serverStatus, trackerHistory>>
    /\ UNCHANGED <<wfVars, rulesVars>>

NextTracker ==
    \/ WsOpen
    \/ WsError
    \/ WsClose
    \/ WsReconnect
    \/ \E f \in Frames : WsMessage(f)
    \/ \E f \in Frames : ServerProgress(f)
    \/ Heartbeat
    \/ \E data \in polls : PollSuccess(data)
    \/ \E data \in polls : PollFailure(data)
    \/ ForceStart
    \/ ForceSuccess
    \/ ForceFailure
    \/ TrackerUnmount

\* The tracker with the two further frames.
NextFrames ==
    \/ NextTracker
    \/ WsMessage(FRunDone)
    \/ \E f \in StrayFrames : WsStrayFrame(f)


(***************************************************************************)
(* RulesMatrix: the rule editor.                                            *)
(***************************************************************************)
\* Bounds of the editor model.
MaxEdits == 2
MaxSaves == 1

\* The segments GET /segments returned for the content file.
Segments == {"blog", "produit"}
\* Texts typed into a min or max field.
RuleInputs == {<<>>, <<"a">>, <<"-", "1">>, <<"3", ".", "7">>, <<"0">>,
               <<"3">>, <<"7">>, <<"1", "2">>}
Fields == {"min_links", "max_links"}
\* inputProps max of the two fields (RulesMatrix.js 209, 219).
Cap == 10

ErrSave == "Erreur lors de la sauvegarde des regles"
ErrLoad == "Erreur lors du chargement"

\* rules[source] is null or a row; a row's [target] is null or a cell.
NoRow == [t \in Segments |-> Null]
EmptyRules == [s \in Segments |-> Null]
Cell(mn, mx) == [min_links |-> mn, max_links |-> mx]
\* What GET /rules answers in its rules field before this client saved
\* anything: a matrix, or nothing (Null), the case fetchSegments reads as {}.
SampleRules ==
    [EmptyRules EXCEPT !["blog"] = Some([NoRow EXCEPT !["produit"] = Some(Cell(2, 5))])]
DefaultStores == {Null, EmptyRules, SampleRules}

\* rulesResponse.data.rules || {}
OrEmpty(r) == IF r = Null THEN EmptyRules ELSE r

HasCell(m, s, t) == m /= Null /\ m[s] /= Null /\ m[s][1][t] /= Null
CellOf(m, s, t) == m[s][1][t][1]
\* rules[sourceType]?.[targetType]?.min_links || 0, and the same for max_links
MinLinks(m, s, t) == IF HasCell(m, s, t) THEN CellOf(m, s, t).min_links ELSE 0
MaxLinks(m, s, t) == IF HasCell(m, s, t) THEN CellOf(m, s, t).max_links ELSE 0

\* The cell with the field written and no repair of the other field.
UnrepairedCell(c, field, v) ==
    IF field = "min_links" THEN Cell(v, c.max_links) ELSE Cell(c.min_links, v)

\* The cell with the value cut to the other field instead of a repair.
ClampedCell(c, field, v) ==
    IF field = "min_links"
    THEN Cell(Min(v, c.max_links), c.max_links)
    ELSE Cell(c.min_links, Max(v, c.min_links))

\* Lines 63-87 of handleRuleChange for an accepted value v: the matrix that
\* is handed to setRules.
RepairedCell(c, field, v) ==
    IF field = "min_links"
    THEN Cell(v, IF v > c.max_links THEN v ELSE c.max_links)
    ELSE Cell(IF v < c.min_links THEN v ELSE c.min_links, v)

\* The matrix with the source's row started afresh for the cell written.
WithRuleFreshRow(m, s, t, field, v) ==
    LET old == IF HasCell(m, s, t) THEN CellOf(m, s, t) ELSE Cell(0, 0)
    IN  [m EXCEPT ![s] = Some([NoRow EXCEPT ![t] = Some(RepairedCell(old, field, v))])]

WithRule(m, s, t, field, v) ==
    LET row == IF m[s] = Null THEN NoRow ELSE m[s][1]
        old == IF row[t] = Null THEN Cell(0, 0) ELSE row[t][1]
    IN  [m EXCEPT ![s] = Some([row EXCEPT ![t] = Some(RepairedCell(old, field, v))])]

\* isNaN(numValue) || numValue < 0
RuleValueRejected(n) == IsNaN(n) \/ n.val < 0

\* The table and the two buttons are rendered once loading is over; the
\* buttons are disabled while a save is under way. With rules undefined the
\* render throws at rules[sourceType] (line 199) and nothing is shown.
RenderThrows == ~rulesLoading /\ rules = Null
TableShown == ~rulesLoading /\ ~RenderThrows
RuleButtonsEnabled == ~rulesLoading /\ ~saving /\ ~RenderThrows

RulesInit ==
    /\ rules = EmptyRules
    /\ rulesLoading = TRUE
    /\ saving = FALSE
    /\ rulesError = Null
    /\ success = FALSE
    /\ store \in DefaultStores
    /\ saveReqs = {}
    /\ loadReqs = {"fetchSegments"}
    /\ editCount = 0

\* fetchSegments: both GETs return; rules are rulesResponse.data.rules || {}.
FetchSegmentsSuccess ==
    /\ "fetchSegments" \in loadReqs
    /\ loadReqs' = loadReqs \ {"fetchSegments"}
    /\ rules' = OrEmpty(store)
    /\ rulesLoading' = FALSE
    /\ UNCHANGED <<saving, rulesError, success, store, saveReqs, editCount>>
    /\ UNCHANGED <<wfVars, trackerVars>>

FetchSegmentsFailure ==
    /\ "fetchSegments" \in loadReqs
    /\ loadReqs' = loadReqs \ {"fetchSegments"}
    /\ rulesError' = Some(ErrLoad)
    /\ rulesLoading' = FALSE
    /\ UNCHANGED <<rules, saving, success, store, saveReqs, editCount>>
    /\ UNCHANGED <<wfVars, trackerVars>>

\* onChange of a min or max field.
handleRuleChange(s, t, field, text) ==
    /\ TableShown
    /\ LET numValue == ParseInt(text)
       IN  IF RuleValueRejected(numValue)
           THEN UNCHANGED <<rules, editCount>>
           ELSE /\ editCount < MaxEdits
                /\ editCount' = editCount + 1
                /\ rules' = WithRule(rules, s, t, field, numValue.val)
    /\ UNCHANGED <<rulesLoading, saving, rulesError, success, store, saveReqs,
                   loadReqs>>
    /\ UNCHANGED <<wfVars, trackerVars>>

\* A click on "Sauvegarder les regles": handleSaveRules up to its await.
handleSaveRules ==
    /\ RuleButtonsEnabled
    /\ Cardinality(saveReqs) < MaxSaves
    /\ saving' = TRUE
    /\ rulesError' = Null
    /\ success' = FALSE
    /\ saveReqs' = saveReqs \cup {rules}
    /\ UNCHANGED <<rules, rulesLoading, store, loadReqs, editCount>>
    /\ UNCHANGED <<wfVars, trackerVars>>

SaveSuccess(body) ==
    /\ body \in saveReqs
    /\ saveReqs' = saveReqs \ {body}
    /\ store' = body
    /\ success' = TRUE
    /\ saving' = FALSE
    /\ UNCHANGED <<rules, rulesLoading, rulesError, loadReqs, editCount>>
    /\ UNCHANGED <<wfVars, trackerVars>>

SaveFailure(body) ==
    /\ body \in saveReqs
    /\ saveReqs' = saveReqs \ {body}
    /\ rulesError' = Some(ErrSave)
    /\ saving' = FALSE
    /\ UNCHANGED <<rules, rulesLoading, success, store, loadReqs, editCount>>
    /\ UNCHANGED <<wfVars, trackerVars>>

\* A click on "Regles par defaut": handleLoadDefaultRules up to its await.
handleLoadDefaultRules ==
    /\ RuleButtonsEnabled
    /\ "loadDefaults" \notin loadReqs
    /\ rulesLoading' = TRUE
    /\ loadReqs' = loadReqs \cup {"loadDefaults"}
    /\ UNCHANGED <<rules, saving, rulesError, success, store, saveReqs,
                   editCount>>
    /\ UNCHANGED <<wfVars, trackerVars>>

\* GET /rules returns: setRules(response.data.rules), with no "|| {}".
LoadDefaultsSuccess ==
    /\ "loadDefaults" \in loadReqs
    /\ loadReqs' = loadReqs \ {"loadDefaults"}
    /\ rules' = store
    /\ rulesLoading' = FALSE
    /\ UNCHANGED <<saving, rulesError, success, store, saveReqs, editCount>>
    /\ UNCHANGED <<wfVars, trackerVars>>

LoadDefaultsFailure ==
    /\ "loadDefaults" \in loadReqs
    /\ loadReqs' = loadReqs \ {"loadDefaults"}
    /\ rulesError' = Some(ErrLoad)
    /\ rulesLoading' = FALSE
    /\ UNCHANGED <<rules, saving, success, store, saveReqs, editCount>>
    /\ UNCHANGED <<wfVars, trackerVars>>

NextRules ==
    \/ FetchSegmentsSuccess
    \/ FetchSegmentsFailure
    \/ \E s \in Segments, t \in Segments, field \in Fields, text \in RuleInputs :
          handleRuleChange(s, t, field, text)
    \/ handleSaveRules
    \/ \E body \in saveReqs : SaveSuccess(body)
    \/ \E body \in saveReqs : SaveFailure(body)
    \/ handleLoadDefaultRules
    \/ LoadDefaultsSuccess
    \/ LoadDefaultsFailure

(***************************************************************************)
(* The three specifications.                                                *)
(***************************************************************************)
Init == WfInit /\ TrackerInit /\ RulesInit /\ store = EmptyRules

\* The workflow of AnalysisPage.
Spec == Init /\ [][Next]_vars

\* The three FileUpload components of step 0.
SpecUploads == Init /\ [][NextUploads]_vars

\* The configuration step of AnalysisPage.
SpecConfig == Init /\ [][NextConfig]_vars

\* A mounted ProgressTracker.
SpecTracker == Init /\ [][NextTracker]_vars

\* A mounted ProgressTracker and a server that sends the further frames.
SpecFrames == Init /\ [][NextFrames]_vars

\* A mounted RulesMatrix with a content file.
InitRules == WfInit /\ TrackerInit /\ RulesInit
SpecRules == InitRules /\ [][NextRules]_vars

\* The editor's table alone: the initial load and the edits of its fields.
NextEdits ==
    \/ FetchSegmentsSuccess
    \/ \E s \in Segments, t \in Segments, field \in Fields, text \in RuleInputs :
          handleRuleChange(s, t, field, text)
SpecEdits == InitRules /\ [][NextEdits]_vars


(***************************************************************************)
(* Claims.                                                                  *)
(***************************************************************************)

\* C1: after every handleRuleChange call, accepted or rejected, on any cell,
\* the cell's min_links is at most its max_links (checked for every cell of
\* the matrix, as the table shows it).
C1_MinAtMostMax ==
    \A s \in Segments, t \in Segments :
        MinLinks(rules, s, t) <= MaxLinks(rules, s, t)

\* C1 witness: the stored cell {min 2, max 5} after setMin 7: max was raised.
C1_Witness ==
    /\ store = SampleRules /\ editCount = 1
    /\ HasCell(rules, "blog", "produit")
    /\ CellOf(rules, "blog", "produit") = Cell(7, 7)

\* C2: when the last frame received is terminal and every poll the socket
\* events triggered has returned, the canonical status is that last frame
\* (no forced completion involved).
C2_LastFrameWins ==
    (/\ mounted /\ lastJsonMessage /= Null /\ Terminal(lastJsonMessage[1])
     /\ polls = {} /\ forceReqs = 0 /\ ~forceApplied)
    => jobStatus = lastJsonMessage

\* C3: the status log never holds the same message twice in a row.
C3_NoAdjacentDuplicates ==
    \A i \in 1..(Len(logHistory) - 1) : logHistory[i] /= logHistory[i + 1]

\* C3 witness: a frame repeated the message of the frame before it, and a
\* later, different message was logged after it.
C3_Witness == repeats /\ Len(logHistory) >= 2

\* C4: once the canonical status is completed or failed, no step of the
\* mounted tracker (frame, poll response, forced-completion response) changes
\* it.
C4_TerminalIsFinal ==
    [][(JobTerminal /\ mounted') => jobStatus' = jobStatus]_vars

\* C5: at most one POST /analyze is in flight at any time.
C5_OneSubmissionInFlight == Cardinality(analyzeReqs) <= 1

\* C6: when POST /analyze succeeds with job id j, the page is on step 2 with
\* jobId = j and shows the tracker, not the spinner.
C6_SuccessShowsTracker ==
    [][\A r \in analyzeReqs :
          AnalyzeSuccess(r) =>
              (activeStep' = 2 /\ jobId' = Some(r.id) /\ TrackerShown')]_vars

\* C7: the page leaves step 0 for step 1 only with a content file descriptor
\* present; without one the step does not become 1.
C7_AdvanceNeedsContent ==
    [][(activeStep = 0 /\ activeStep' = 1) => contentFile /= Null]_vars

\* C7 witness: the first advance of the first run, with the content file set.
C7_Witness ==
    /\ activeStep = 1 /\ contentFile /= Null
    /\ run = 0 /\ submitCount = 0 /\ jobId = Null

\* C8: handleReset leaves step 0, no file descriptor, the initial
\* configuration, no job id, analyzing false and no error.
C8_ResetRestoresInitial ==
    [][handleReset =>
          (/\ activeStep' = 0
           /\ contentFile' = Null /\ linksFile' = Null /\ gscFile' = Null
           /\ minSimilarity' = InitialMinSimilarity
           /\ anchorSuggestions' = InitialAnchorSuggestions
           /\ jobId' = Null /\ analyzing' = FALSE /\ error' = Null)]_vars

\* C9: a job id held by the page was requested in the current run: the
\* response to a submission issued before a reset never sets the job id (nor
\* moves the step) after it.
C9_NoJobFromEarlierRun == jobId /= Null => jobRun = run

\* C10: with a socket that never opened and no reconnection left, once the
\* job is terminal on the server and no request is under way, the canonical
\* status is the job's terminal status (polling went on until then).
C10_PollingReachesTerminal ==
    (/\ mounted /\ ~everOpened
     /\ readyState = CLOSED /\ reconnectCount = ReconnectAttempts
     /\ polls = {} /\ forceReqs = 0 /\ ~forceApplied
     /\ Terminal(serverStatus))
    => jobStatus = Some(serverStatus)


\* C11: a forced completion that is applied after an earlier one leaves the
\* canonical status equal to what the earlier one wrote, and no forced
\* completion lowers progress.
C11_ForceIdempotent ==
    [][(ForceSuccess /\ mounted /\ serverStatus'.status = "completed") =>
          (/\ lastForced /= Null => jobStatus' = lastForced
           /\ jobStatus'[1].progress >= jobStatus[1].progress)]_vars

\* C11 witness: a second forced completion was applied after a first one (a
\* late poll answer had put the status back to running in between).
C11_Witness == forcedAgain /\ mounted /\ jobStatus = lastForced

\* C12: a force-complete answer with status completed sets the canonical
\* status to completed with the answer's result reference at once; an answer
\* with another status, or a failed request, leaves it as it was.
C12_ForceOverwrites ==
    [][/\ (ForceSuccess /\ mounted) =>
              IF serverStatus'.status = "completed"
              THEN /\ jobStatus'[1].status = "completed"
                   /\ jobStatus'[1].result_file = serverStatus'.result_file
              ELSE jobStatus' = jobStatus
       /\ ForceFailure => jobStatus' = jobStatus]_vars

\* C12 witness: the status written by a forced completion while the last
\* frame received says running.
C12_Witness ==
    /\ forceApplied /\ jobStatus = lastForced
    /\ jobStatus[1].result_file = Some("r1.xlsx")
    /\ lastJsonMessage /= Null /\ lastJsonMessage[1].status = "running"
    /\ polls = {}

\* C17: a failed GET /job leaves the canonical status and the status log as
\* they were.
C17_PollFailureKeepsStatus ==
    [][\A data \in polls :
          PollFailure(data) =>
              (jobStatus' = jobStatus /\ logHistory' = logHistory)]_vars

\* C17 witness: a poll failed while a status and a log were held.
C17_Witness ==
    /\ mounted /\ trackerError = Some(ErrPoll)
    /\ jobStatus /= Null /\ Len(logHistory) > 0

\* C18: no socket or poll failure is shown to the user: the tracker's error
\* stays empty.
C18_NoChannelErrorShown == trackerError = Null

\* C19: a new socket is opened after a close only while the canonical status
\* is not terminal.
C19_NoReconnectOnceTerminal ==
    [][WsReconnect => ~JobTerminal]_vars


\* C13: an accepted value v written to min gives (v, max') with max' = v when
\* v > max and max' = max otherwise; written to max it gives (min', v) with
\* min' = v when v < min and min' = min otherwise. From {2, 5}, min := 7
\* gives {7, 7}, and from there max := 3 gives {3, 3}.
C13_SetMinSetMax ==
    [][/\ \A s \in Segments, t \in Segments, field \in Fields, text \in RuleInputs :
             (handleRuleChange(s, t, field, text)
                 /\ ~RuleValueRejected(ParseInt(text))) =>
                 LET v == ParseInt(text).val
                     mn == MinLinks(rules, s, t)
                     mx == MaxLinks(rules, s, t)
                 IN  /\ HasCell(rules', s, t)
                     /\ CellOf(rules', s, t) =
                           IF field = "min_links"
                           THEN Cell(v, IF v > mx THEN v ELSE mx)
                           ELSE Cell(IF v < mn THEN v ELSE mn, v)
       /\ \A s \in Segments, t \in Segments :
             /\ (/\ HasCell(rules, s, t) /\ CellOf(rules, s, t) = Cell(2, 5)
                 /\ handleRuleChange(s, t, "min_links", <<"7">>)) =>
                    CellOf(rules', s, t) = Cell(7, 7)
             /\ (/\ HasCell(rules, s, t) /\ CellOf(rules, s, t) = Cell(7, 7)
                 /\ handleRuleChange(s, t, "max_links", <<"3">>)) =>
                    CellOf(rules', s, t) = Cell(3, 3)]_vars

\* C13 witness: the stored cell {2, 5} after two accepted edits holds {3, 3}
\* (min := 7, then max := 3).
C13_Witness ==
    /\ store = SampleRules /\ editCount = 2
    /\ HasCell(rules, "blog", "produit")
    /\ CellOf(rules, "blog", "produit") = Cell(3, 3)

\* C14: a value that is not a non-negative integer (its text is not a
\* non-empty string of digits) changes neither the matrix nor the error.
C14_InvalidValueRejected ==
    [][\A s \in Segments, t \in Segments, field \in Fields, text \in RuleInputs :
          (/\ handleRuleChange(s, t, field, text)
           /\ ~(text /= <<>> /\ \A i \in 1..Len(text) : text[i] \in Digits)) =>
              (rules' = rules /\ rulesError' = rulesError)]_vars

\* C15: every cell of the matrix has 0 <= min_links <= max_links <= cap.
C15_CellsWithinCap ==
    \A s \in Segments, t \in Segments :
        /\ 0 <= MinLinks(rules, s, t)
        /\ MinLinks(rules, s, t) <= MaxLinks(rules, s, t)
        /\ MaxLinks(rules, s, t) <= Cap

\* C16: a failed load of the defaults leaves the matrix as it was; a
\* successful one makes it the loaded matrix, which is a matrix and not an
\* absent value.
C16_ReplaceAllOrNothing ==
    [][/\ LoadDefaultsFailure => rules' = rules
       /\ LoadDefaultsSuccess => (rules' = store /\ rules' /= Null)]_vars


\* C20: when a submission fails the page is on step 1 with the failure as
\* its error, analyzing false, no job id, and the three files and the
\* configuration as they were sent.
C20_FailureBackToConfiguring ==
    [][\A r \in analyzeReqs :
          AnalyzeFailure(r) =>
              (/\ activeStep' = 1
               /\ error' = Some(ErrAnalyze)
               /\ analyzing' = FALSE
               /\ jobId' = Null
               /\ contentFile' /= Null
               /\ contentFile'[1].path = r.body.content_file
               /\ (linksFile' = Null) = (r.body.links_file = Null)
               /\ linksFile' /= Null => Some(linksFile'[1].path) = r.body.links_file
               /\ (gscFile' = Null) = (r.body.gsc_file = Null)
               /\ gscFile' /= Null => Some(gscFile'[1].path) = r.body.gsc_file
               /\ minSimilarity' = r.body.min_similarity
               /\ anchorSuggestions' = r.body.anchor_suggestions)]_vars


\* C22: once the page is on step 2 the only step that leaves it is a reset,
\* which goes to step 0; nothing goes back to step 1 and no submission is
\* issued from there in the same run.
C22_OnlyResetLeavesMonitoring ==
    [][(activeStep = 2 /\ activeStep' /= 2) =>
          (handleReset /\ activeStep' = 0)]_vars

\* C23: after a successful advance, back, submission answer or reset the
\* page's error is empty.
C23_ErrorClearedByTransition ==
    [][(\/ handleNext
        \/ handleBack
        \/ \E r \in analyzeReqs : AnalyzeSuccess(r)
        \/ handleReset) => error' = Null]_vars

\* C27: activeStep is 0, 1 or 2; on step 2 a job id is set; from step 1 on
\* the content file descriptor is present; every payload sent carries a
\* content file.
C27_WorkflowInvariant ==
    /\ activeStep \in {0, 1, 2}
    /\ activeStep = 2 => jobId /= Null
    /\ activeStep >= 1 => contentFile /= Null
    /\ \A r \in analyzeReqs : r.body.content_file \in Files


\* C24: in every state anchorSuggestions is an integer of 1..10 and
\* minSimilarity is within 0..1 (0..100 hundredths), and so are the values
\* of every payload sent.
C24_ConfigValid ==
    /\ anchorSuggestions \in 1..10
    /\ minSimilarity \in 0..100
    /\ \A r \in analyzeReqs :
          /\ r.body.anchor_suggestions \in 1..10
          /\ r.body.min_similarity \in 0..100

\* C24 witness: a payload sent after 42 was typed (cut to 10) and the slider
\* was moved to its upper end, the field then holding 1 (from a text that is
\* no number, zero or negative).
C24_Witness ==
    /\ anchorSuggestions = 1
    /\ \E r \in analyzeReqs :
          r.body.anchor_suggestions = 10 /\ r.body.min_similarity = 100


\* C30: a failed upload leaves the three descriptors as they were; a
\* descriptor changes only when an upload succeeds (or at a reset); and the
\* answer to an upload started before the slot's last drop does not replace
\* the descriptor of the file dropped last.
C30_LatestUploadWins ==
    [][/\ \A u \in uploads :
             UploadFailure(u) =>
                 <<contentFile, linksFile, gscFile>>' = <<contentFile, linksFile, gscFile>>
       /\ <<contentFile, linksFile, gscFile>>' /= <<contentFile, linksFile, gscFile>> =>
             ((\E u \in uploads : UploadSuccess(u)) \/ handleReset)
       /\ \A u \in uploads :
             (/\ UploadSuccess(u)
              /\ lastSelected[u.slot] /= Null
              /\ lastSelected[u.slot] /= Some(u.file)
              /\ SlotFile(u.slot) = Some(FileDescriptor(lastSelected[u.slot][1]))) =>
                 SlotFile(u.slot)' = SlotFile(u.slot)]_vars


\* C21: once the canonical status is completed or failed, no heartbeat is
\* sent and no poll request is issued.
C21_StopsWhenTerminal ==
    /\ [](JobTerminal => ~HeartbeatDue)
    /\ [][JobTerminal => polls' \subseteq polls]_vars

\* C25: a frame whose status is none of the four expected values is
\* discarded: the canonical status stays what it was.
C25_MalformedFrameDiscarded ==
    [][\A f \in StrayFrames :
          (/\ WsStrayFrame(f)
           /\ f.status \notin {"queued", "running", "completed", "failed"}) =>
              jobStatus' = jobStatus]_vars

\* C28: result actions are offered only when the status is completed, the
\* force-complete action only when it is running, and result actions never
\* together with the force-complete action or the failure notice.
C28_ActionsMatchStatus ==
    /\ ResultActionsShown => jobStatus[1].status = "completed"
    /\ ForceButtonShown => jobStatus[1].status = "running"
    /\ ~(ResultActionsShown /\ ForceButtonShown)
    /\ ~(ResultActionsShown /\ FailureNoticeShown)


\* C26: an edit of the cell (s, t), accepted or rejected, leaves the
\* min_links and max_links of every other cell as they were.
C26_EditTouchesOneCell ==
    [][\A s \in Segments, t \in Segments, field \in Fields, text \in RuleInputs :
          handleRuleChange(s, t, field, text) =>
              \A s2 \in Segments, t2 \in Segments :
                  <<s2, t2>> /= <<s, t>> =>
                      /\ HasCell(rules', s2, t2) = HasCell(rules, s2, t2)
                      /\ MinLinks(rules', s2, t2) = MinLinks(rules, s2, t2)
                      /\ MaxLinks(rules', s2, t2) = MaxLinks(rules, s2, t2)]_vars

\* C26 witness: a cell was written in the row of the stored cell {2, 5},
\* which is still there.
C26_Witness ==
    /\ store = SampleRules /\ editCount = 1
    /\ HasCell(rules, "blog", "blog")
    /\ HasCell(rules, "blog", "produit")
    /\ CellOf(rules, "blog", "produit") = Cell(2, 5)

\* C29: while the save-succeeded alert is shown, the matrix held equals the
\* matrix the Rule Store holds from the last POST /rules.
C29_SuccessMeansSaved == success => rules = store


====
